---------------------------- MODULE Spec2Model ----------------------------
(***************************************************************************)
(* glow_glyph: the GlyphBrush facade of src/src/lib.rs, its two arms       *)
(* (Core, Compatibility), and the atlas resize-and-retry loop of           *)
(* GlyphBrush::process_queued.                                             *)
(*                                                                         *)
(* lib.rs is the only unit modelled from code.  Two collaborators are      *)
(* called by it and are not part of lib.rs:                                *)
(*   - pipeline::{core,compatibility}::Pipeline (mod pipeline, line 7):    *)
(*     modelled from its contract (new, get_max_texture_size,              *)
(*     update_cache, increase_cache_size, upload, draw);                   *)
(*   - glyph_brush::GlyphBrush, the cache engine (external crate): its     *)
(*     queue, its texture cache with row packing, its Draw / ReDraw /      *)
(*     TextureTooSmall results.  The dimensions it suggests are an input   *)
(*     drawn from the pairs larger than its current dimensions.            *)
(* Dimensions, glyph sizes and rectangle coordinates are u32 values drawn  *)
(* from 1..MaxDim; `as u16` is modelled as reduction modulo 2^16.          *)
(***************************************************************************)
EXTENDS Integers, Sequences, FiniteSets, TLC

\* ------------------------------------------------------------------ bounds
MaxDim == 3
NSections == 2
MaxFonts == 2
MaxMajor == 4

\* ------------------------------------------------------- program constants
U16Mod == 65536
CoreMinMajor == 3

Dim == 1..MaxDim
DimPair == Dim \X Dim
Sections == 1..NSections
GlMajors == 1..MaxMajor
TargetWidths == {2}
TargetHeights == {1}
Regions == {"region"}
NoScissor == "None"

VARIABLES
  glMajor,        \* gl.version().major reported by the context
  variant,        \* the enum tag: "Core" | "Compatibility"
  maxTextureSize, \* pipeline.get_max_texture_size()
  atlasDims,      \* pipeline: dimensions of the GPU atlas texture
  atlasTexels,    \* pipeline: patches present in the GPU atlas texture
  vertexBuffer,   \* pipeline: the uploaded vertex batch
  textureDims,    \* glyph_brush.texture_dimensions()
  sectionBuffer,  \* glyph_brush: sections queued for the next draw
  keepInCache,    \* glyph_brush: sections retained by keep_cached
  lastDraw,       \* glyph_brush: what the last Draw action drew
  cachedGlyphs,   \* glyph_brush: glyphs in the texture cache, in row order
  fonts,          \* glyph_brush: number of fonts
  pc,             \* position inside the running public operation
  op,             \* which draw operation is running
  transform,      \* argument of the running draw operation
  region,         \* argument of the running draw operation
  brush_action,   \* local of process_queued
  newDims,        \* local (new_width, new_height) of process_queued
  retries,        \* TextureTooSmall results in the running draw operation
  calls,          \* calls issued by the running draw operation, in order
  ret,            \* the Result the draw operation returns: "none" until it
                  \* has one
  frame,          \* what was queued, and the atlas size, when the running
                  \* draw operation began
  history         \* last: "queued" when a queue or keep_cached operation came
                  \* after the last draw, "draw" when none did; drew: what was
                  \* queued when the last completed draw began

vars == <<glMajor, variant, maxTextureSize, atlasDims, atlasTexels,
          vertexBuffer, textureDims, sectionBuffer, keepInCache, lastDraw,
          cachedGlyphs, fonts, pc, op, transform, region,
          brush_action, newDims, retries, calls, ret, frame,
          history>>

pipelineVars == <<atlasDims, atlasTexels, vertexBuffer>>
engineVars == <<textureDims, sectionBuffer, keepInCache, lastDraw,
                cachedGlyphs, fonts>>
constVars == <<glMajor, variant, maxTextureSize>>
localVars == <<op, transform, region, brush_action, newDims, retries, calls,
               frame>>

\* ----------------------------------------------------------------- helpers
Range(s) == {s[i] : i \in DOMAIN s}

Min(S) == CHOOSE x \in S : \A y \in S : x <= y

RECURSIVE SetToSeq(_)
SetToSeq(S) == IF S = {} THEN <<>>
               ELSE <<Min(S)>> \o SetToSeq(S \ {Min(S)})

AsU16(x) == x % U16Mod

NoAction == [kind |-> "None", verts |-> {}, suggested |-> <<0, 0>>]

\* ------------------------------------------- cache engine (glyph_brush)
\* One glyph per section; its rasterised bitmap is GlyphW(s) x GlyphH(s).
GlyphW(s) == 1 + (s % 2)
GlyphH(s) == s

RECURSIVE RowWidth(_)
RowWidth(row) == IF row = <<>> THEN 0
                 ELSE GlyphW(Head(row)) + RowWidth(Tail(row))

\* The texture cache packs its glyphs left to right in one row.
Fits(row, dims) ==
  /\ RowWidth(row) <= dims[1]
  /\ \A i \in DOMAIN row : GlyphH(row[i]) <= dims[2]

XOffset(row, i) == RowWidth(SubSeq(row, 1, i - 1))

\* ab_glyph::Rect-like rectangle of the i-th glyph of the row.
GlyphRect(row, i) ==
  [min |-> <<XOffset(row, i), 0>>,
   max |-> <<XOffset(row, i) + GlyphW(row[i]), GlyphH(row[i])>>]

RectWidth(rect) == rect.max[1] - rect.min[1]
RectHeight(rect) == rect.max[2] - rect.min[2]

IndexOf(row, s) == CHOOSE i \in DOMAIN row : row[i] = s

\* The (rect, tex_data) pairs the engine hands to the update_texture
\* callback for the glyphs at positions from..Len(row) of the row.
EnginePatches(row, from) ==
  [k \in 1..(Len(row) - from + 1) |->
     [rect |-> GlyphRect(row, from + k - 1), data |-> row[from + k - 1]]]

\* The positioned glyphs the engine hands to the to_vertex callback.
EngineGlyphs(row, secs) ==
  {[glyph |-> s, tex |-> GlyphRect(row, IndexOf(row, s))] : s \in secs}

\* The dimensions a TextureTooSmall error may suggest: larger than the
\* engine's current ones (glyph_brush suggests twice the current size).
Suggestions(dims) ==
  {d \in DimPair : d[1] >= dims[1] /\ d[2] >= dims[2] /\ d # dims}

\* What the sections need of the atlas, all in one row.
QueueFits(secs, dims) == Fits(SetToSeq(secs), dims)

\* ------------------------------------------------- pipeline (mod pipeline)
Overlap(p, q) ==
  /\ p.offset[1] < q.offset[1] + q.size[1]
  /\ q.offset[1] < p.offset[1] + p.size[1]
  /\ p.offset[2] < q.offset[2] + q.size[2]
  /\ q.offset[2] < p.offset[2] + p.size[2]

\* Pipeline::new(gl, cache_width, cache_height)
PipelineNew(cache_width, cache_height) ==
  [dims |-> <<cache_width, cache_height>>, texels |-> {}, vertices |-> {}]

\* Pipeline::update_cache(context, offset, size, data)
PipelineUpdateCache(texels, patch) ==
  {q \in texels : ~Overlap(q, patch)} \cup {patch}

\* Pipeline::increase_cache_size(context, width, height)
PipelineIncreaseCacheSize(width, height) ==
  [dims |-> <<width, height>>, texels |-> {}]

\* Pipeline::upload(context, verts)
PipelineUpload(verts) == verts


\* ------------------------------------------------------ lib.rs: values
F(n) == <<n, 1>>

RECURSIVE Gcd(_, _)
Gcd(a, b) == IF b = 0 THEN a ELSE Gcd(b, a % b)

Abs(a) == IF a < 0 THEN -a ELSE a

\* The f32 value a / b (b > 0), in lowest terms.
Quot(a, b) == <<a \div Gcd(Abs(a), b), b \div Gcd(Abs(a), b)>>

\* orthographic_projection(width, height); an f32 value a / b is the pair <<a, b>>.
OrthographicProjection(width, height) ==
  << Quot(2, width), F(0), F(0), F(0),
     F(0), Quot(-2, height), F(0), F(0),
     F(0), F(0), F(1), F(0),
     F(-1), F(1), F(0), F(1) >>

IdentityTransform ==
  << F(1), F(0), F(0), F(0),
     F(0), F(1), F(0), F(0),
     F(0), F(0), F(1), F(0),
     F(0), F(0), F(0), F(1) >>

\* The transforms callers pass: the projections of the target sizes.
Transforms ==
  {OrthographicProjection(w, h) : w \in TargetWidths, h \in TargetHeights}

\* A call issued by the driver or the facade, as recorded in `calls`.
Call(name) ==
  [op |-> name, dims |-> <<0, 0>>, offset |-> <<0, 0>>, size |-> <<0, 0>>,
   data |-> 0, verts |-> {}, transform |-> IdentityTransform,
   scissor |-> NoScissor, result |-> "None"]

NoFrame == [secs |-> {}, keep |-> {}, dims |-> <<0, 0>>]

\* A variant of NewVariant that takes the Core arm only above version 3.
NewVariantAboveThree(major) ==
  IF major > CoreMinMajor THEN "Core" ELSE "Compatibility"

\* GlyphBrush::new: the arm chosen for gl.version().major
NewVariant(major) ==
  IF major >= CoreMinMajor THEN "Core" ELSE "Compatibility"

\* A variant of CompatibilityUpdateCache that passes the rectangle's far
\* corner as the size of the patch.
CompatibilityUpdateCacheSizeFromMax(rect, tex_data) ==
  [offset |-> <<AsU16(rect.min[1]), AsU16(rect.min[2])>>,
   size |-> <<AsU16(rect.max[1]), AsU16(rect.max[2])>>,
   data |-> tex_data]

\* The update_texture closure of the Compatibility arm.
CompatibilityUpdateCache(rect, tex_data) ==
  [offset |-> <<AsU16(rect.min[1]), AsU16(rect.min[2])>>,
   size |-> <<AsU16(RectWidth(rect)), AsU16(RectHeight(rect))>>,
   data |-> tex_data]

\* A variant of CoreUpdateCache that passes the offset with its axes swapped.
CoreUpdateCacheSwappedAxes(rect, tex_data) ==
  [offset |-> <<AsU16(rect.min[2]), AsU16(rect.min[1])>>,
   size |-> <<AsU16(RectWidth(rect)), AsU16(RectHeight(rect))>>,
   data |-> tex_data]

\* The update_texture closure of the Core arm.
CoreUpdateCache(rect, tex_data) ==
  [offset |-> <<AsU16(rect.min[1]), AsU16(rect.min[2])>>,
   size |-> <<AsU16(RectWidth(rect)), AsU16(RectHeight(rect))>>,
   data |-> tex_data]

UpdateCache(rect, tex_data) ==
  IF variant = "Compatibility" THEN CompatibilityUpdateCache(rect, tex_data)
  ELSE CoreUpdateCache(rect, tex_data)

\* The to_vertex closure of each arm: four vertices, or one instance.
CompatibilityToVertex(glyph) ==
  [fmt |-> "Vertex4", glyph |-> glyph.glyph, tex |-> glyph.tex]

CoreToVertex(glyph) ==
  [fmt |-> "Instance", glyph |-> glyph.glyph, tex |-> glyph.tex]

ToVertex(glyph) ==
  IF variant = "Compatibility" THEN CompatibilityToVertex(glyph)
  ELSE CoreToVertex(glyph)

\* A variant of CompatibilityResizeTarget that clamps only when the
\* suggestion exceeds the maximum on both axes.
CompatibilityResizeTargetBothAxes(suggested, max_image_size, dims) ==
  IF /\ (suggested[1] > max_image_size /\ suggested[2] > max_image_size)
     /\ (dims[1] < max_image_size \/ dims[2] < max_image_size)
  THEN <<max_image_size, max_image_size>>
  ELSE suggested

\* A variant of CompatibilityResizeTarget that never clamps.
CompatibilityResizeTargetNeverClamp(suggested, max_image_size, dims) ==
  suggested

\* (new_width, new_height) of the Compatibility arm.
CompatibilityResizeTarget(suggested, max_image_size, dims) ==
  IF /\ (suggested[1] > max_image_size \/ suggested[2] > max_image_size)
     /\ (dims[1] < max_image_size \/ dims[2] < max_image_size)
  THEN <<max_image_size, max_image_size>>
  ELSE suggested

\* A variant of CoreResizeTarget that clamps whenever the suggestion exceeds
\* the maximum, also when the atlas has no room left to grow.
CoreResizeTargetAlwaysClamp(suggested, max_image_size, dims) ==
  IF suggested[1] > max_image_size \/ suggested[2] > max_image_size
  THEN <<max_image_size, max_image_size>>
  ELSE suggested

\* (new_width, new_height) of the Core arm.
CoreResizeTarget(suggested, max_image_size, dims) ==
  IF /\ (suggested[1] > max_image_size \/ suggested[2] > max_image_size)
     /\ (dims[1] < max_image_size \/ dims[2] < max_image_size)
  THEN <<max_image_size, max_image_size>>
  ELSE suggested

ResizeTarget(suggested, max_image_size, dims) ==
  IF variant = "Compatibility"
  THEN CompatibilityResizeTarget(suggested, max_image_size, dims)
  ELSE CoreResizeTarget(suggested, max_image_size, dims)

\* A variant of LoopBreaks that leaves the loop on any result.
LoopBreaksOnAnyResult(action) ==
  action.kind \in {"Draw", "ReDraw", "TextureTooSmall"}

\* `match brush_action { Ok(_) => break, ... }`
LoopBreaks(action) == action.kind \in {"Draw", "ReDraw"}

\* A variant of UnwrapUploads that never uploads.
UnwrapUploadsNever(action) == action.kind = "None"

\* A variant of UnwrapUploads that uploads the (empty) vertices of a ReDraw
\* as well.
UnwrapUploadsAlways(action) == action.kind \in {"Draw", "ReDraw"}

\* `match brush_action.unwrap() { Draw(verts) => upload, ReDraw => {} }`
UnwrapUploads(action) == action.kind = "Draw"

RECURSIVE ApplyPatches(_, _)
ApplyPatches(texels, patches) ==
  IF patches = <<>> THEN texels
  ELSE ApplyPatches(
         PipelineUpdateCache(texels,
                             UpdateCache(Head(patches).rect, Head(patches).data)),
         Tail(patches))

PatchCalls(patches) ==
  [k \in DOMAIN patches |->
     LET a == UpdateCache(patches[k].rect, patches[k].data)
     IN [Call("patch_atlas") EXCEPT
           !.offset = a.offset, !.size = a.size, !.data = a.data]]


\* ------------------------------------------------------------ construction
\* GlyphBrush::new (via GlyphBrushBuilder::build): the arm is chosen from the
\* context's major version, the engine is built at its initial cache size and
\* the pipeline is created at the engine's texture_dimensions().
Init ==
  /\ glMajor \in GlMajors
  /\ variant = NewVariant(glMajor)
  /\ maxTextureSize \in Dim
  /\ textureDims \in DimPair
  /\ atlasDims = PipelineNew(textureDims[1], textureDims[2]).dims
  /\ atlasTexels = PipelineNew(textureDims[1], textureDims[2]).texels
  /\ vertexBuffer = PipelineNew(textureDims[1], textureDims[2]).vertices
  /\ sectionBuffer = {}
  /\ keepInCache = {}
  /\ lastDraw = [valid |-> FALSE, secs |-> {}]
  /\ cachedGlyphs = <<>>
  /\ fonts = 1
  /\ pc = "idle"
  /\ op = "none"
  /\ transform = IdentityTransform
  /\ region = NoScissor
  /\ brush_action = NoAction
  /\ newDims = <<0, 0>>
  /\ retries = 0
  /\ calls = <<>>
  /\ ret = "none"
  /\ frame = NoFrame
  /\ history = [last |-> "new", drew |-> {}]

\* ------------------------------------------------ operations on the queue
\* The model queues only what fits the largest atlas it represents.
Representable(secs) == QueueFits(secs, <<MaxDim, MaxDim>>)

Forwarded ==
  UNCHANGED <<constVars, pipelineVars, localVars, pc, ret>>

\* A variant of Queue that rasterises the section into the pipeline's atlas
\* at once.
QueueRasterizing ==
  /\ pc = "idle"
  /\ \E s \in Sections :
       /\ Representable(sectionBuffer \cup keepInCache \cup {s})
       /\ sectionBuffer' = sectionBuffer \cup {s}
       /\ atlasTexels' =
            PipelineUpdateCache(atlasTexels,
                                UpdateCache(GlyphRect(<<s>>, 1), s))
  /\ history' = [history EXCEPT !.last = "queued"]
  /\ UNCHANGED <<constVars, atlasDims, vertexBuffer, localVars, pc, ret>>
  /\ UNCHANGED <<textureDims, keepInCache, lastDraw, cachedGlyphs, fonts>>

\* queue(section)
Queue ==
  /\ pc = "idle"
  /\ \E s \in Sections :
       /\ Representable(sectionBuffer \cup keepInCache \cup {s})
       /\ sectionBuffer' = sectionBuffer \cup {s}
  /\ history' = [history EXCEPT !.last = "queued"]
  /\ Forwarded
  /\ UNCHANGED <<textureDims, keepInCache, lastDraw, cachedGlyphs, fonts>>

\* queue_custom_layout(section, custom_layout)
QueueCustomLayout ==
  /\ pc = "idle"
  /\ \E s \in Sections :
       /\ Representable(sectionBuffer \cup keepInCache \cup {s})
       /\ sectionBuffer' = sectionBuffer \cup {s}
  /\ history' = [history EXCEPT !.last = "queued"]
  /\ Forwarded
  /\ UNCHANGED <<textureDims, keepInCache, lastDraw, cachedGlyphs, fonts>>

\* queue_pre_positioned(glyphs, extra, bounds)
QueuePrePositioned ==
  /\ pc = "idle"
  /\ \E s \in Sections :
       /\ Representable(sectionBuffer \cup keepInCache \cup {s})
       /\ sectionBuffer' = sectionBuffer \cup {s}
  /\ history' = [history EXCEPT !.last = "queued"]
  /\ Forwarded
  /\ UNCHANGED <<textureDims, keepInCache, lastDraw, cachedGlyphs, fonts>>

\* keep_cached_custom_layout(section, custom_layout)
KeepCachedCustomLayout ==
  /\ pc = "idle"
  /\ \E s \in Sections :
       /\ Representable(sectionBuffer \cup keepInCache \cup {s})
       /\ keepInCache' = keepInCache \cup {s}
  /\ history' = [history EXCEPT !.last = "queued"]
  /\ Forwarded
  /\ UNCHANGED <<textureDims, sectionBuffer, lastDraw, cachedGlyphs, fonts>>

\* keep_cached(section)
KeepCached ==
  /\ pc = "idle"
  /\ \E s \in Sections :
       /\ Representable(sectionBuffer \cup keepInCache \cup {s})
       /\ keepInCache' = keepInCache \cup {s}
  /\ history' = [history EXCEPT !.last = "queued"]
  /\ Forwarded
  /\ UNCHANGED <<textureDims, sectionBuffer, lastDraw, cachedGlyphs, fonts>>

\* fonts()
Fonts ==
  /\ pc = "idle"
  /\ UNCHANGED vars

\* add_font(font): the new FontId is the index of the added font.
AddFont ==
  /\ pc = "idle"
  /\ fonts < MaxFonts
  /\ fonts' = fonts + 1
  /\ UNCHANGED <<constVars, pipelineVars, localVars, pc, ret, history>>
  /\ UNCHANGED <<textureDims, sectionBuffer, keepInCache, lastDraw,
                 cachedGlyphs>>


\* ------------------------------------------------------- draw operations
\* A variant of EnterDraw that issues the pipeline's draw call before it
\* runs process_queued.
EnterDrawDrawingFirst(name, t, r) ==
  /\ pc = "idle"
  /\ pc' = "process"
  /\ op' = name
  /\ transform' = t
  /\ region' = r
  /\ brush_action' = NoAction
  /\ newDims' = <<0, 0>>
  /\ retries' = 0
  /\ calls' = <<[Call("draw") EXCEPT !.transform = t, !.scissor = r]>>
  /\ frame' = [secs |-> sectionBuffer, keep |-> keepInCache,
               dims |-> textureDims]
  /\ ret' = "none"
  /\ UNCHANGED <<constVars, pipelineVars, engineVars, history>>

\* Entry of a draw operation: the call of self.process_queued(context).
EnterDraw(name, t, r) ==
  /\ pc = "idle"
  /\ pc' = "process"
  /\ op' = name
  /\ transform' = t
  /\ region' = r
  /\ brush_action' = NoAction
  /\ newDims' = <<0, 0>>
  /\ retries' = 0
  /\ calls' = <<>>
  /\ frame' = [secs |-> sectionBuffer, keep |-> keepInCache,
               dims |-> textureDims]
  /\ ret' = "none"
  /\ UNCHANGED <<constVars, pipelineVars, engineVars, history>>

\* A variant of DrawQueued that passes the projection of the swapped target
\* size.
DrawQueuedSwappedTarget ==
  \E w \in TargetWidths, h \in TargetHeights :
    EnterDraw("draw_queued_with_transform", OrthographicProjection(h, w),
              NoScissor)

\* draw_queued(context, target_width, target_height)
DrawQueued ==
  \E w \in TargetWidths, h \in TargetHeights :
    EnterDraw("draw_queued_with_transform", OrthographicProjection(w, h),
              NoScissor)

\* draw_queued_with_transform(context, transform)
DrawQueuedWithTransform ==
  \E t \in Transforms :
    EnterDraw("draw_queued_with_transform", t, NoScissor)

\* draw_queued_with_transform_and_scissoring(context, transform, region)
DrawQueuedWithTransformAndScissoring ==
  \E t \in Transforms, r \in Regions :
    EnterDraw("draw_queued_with_transform_and_scissoring", t, r)

\* ----------------------------------------- process_queued: one attempt
ProcessResult(action) ==
  [Call("process_queued") EXCEPT !.result = action.kind,
                                 !.dims = action.suggested]

\* glyph_brush.process_queued returns Ok(action): the update_texture closure
\* ran for every patch, then the frame's queue was cleaned up.
EngineOk(action, patches, row) ==
  /\ brush_action' = action
  /\ atlasTexels' = ApplyPatches(atlasTexels, patches)
  /\ calls' = calls \o PatchCalls(patches) \o <<ProcessResult(action)>>
  /\ cachedGlyphs' = row
  /\ sectionBuffer' = {}
  /\ keepInCache' = {}

DrawAction(row) ==
  [kind |-> "Draw",
   verts |-> {ToVertex(g) : g \in EngineGlyphs(row, sectionBuffer)},
   suggested |-> <<0, 0>>]

ReDrawAction == [kind |-> "ReDraw", verts |-> {}, suggested |-> <<0, 0>>]

TextureTooSmall(suggested) ==
  [kind |-> "TextureTooSmall", verts |-> {}, suggested |-> suggested]

\* The glyphs the texture cache must hold for this frame.
Needed == sectionBuffer \cup keepInCache

\* The queue is the one the last Draw action drew: nothing to do.
EngineReDraws == lastDraw.valid /\ lastDraw.secs = sectionBuffer

\* The cache row with the missing glyphs added, and the row rebuilt from the
\* needed glyphs alone.
RowAdded == cachedGlyphs \o SetToSeq(Needed \ Range(cachedGlyphs))
RowReordered == SetToSeq(Needed)

\* `brush_action = glyph_brush.process_queued(update_texture, to_vertex)`
ProcessQueued ==
  /\ pc = "process"
  /\ pc' = "match"
  /\ LET redraw == EngineReDraws
         added == RowAdded
         reordered == RowReordered
     IN
     \/ /\ redraw
        /\ EngineOk(ReDrawAction, <<>>, cachedGlyphs)
        /\ UNCHANGED lastDraw
     \/ /\ ~redraw
        /\ Fits(added, textureDims)
        /\ EngineOk(DrawAction(added),
                    EnginePatches(added, Len(cachedGlyphs) + 1), added)
        /\ lastDraw' = [valid |-> TRUE, secs |-> sectionBuffer]
     \/ /\ ~redraw
        /\ ~Fits(added, textureDims)
        /\ Fits(reordered, textureDims)
        /\ EngineOk(DrawAction(reordered), EnginePatches(reordered, 1),
                    reordered)
        /\ lastDraw' = [valid |-> TRUE, secs |-> sectionBuffer]
     \/ /\ ~redraw
        /\ ~Fits(added, textureDims)
        /\ ~Fits(reordered, textureDims)
        /\ \E suggested \in Suggestions(textureDims) :
             /\ brush_action' = TextureTooSmall(suggested)
             /\ calls' = Append(calls,
                                ProcessResult(TextureTooSmall(suggested)))
        /\ cachedGlyphs' = <<>>
        /\ UNCHANGED <<atlasTexels, sectionBuffer, keepInCache, lastDraw>>
  /\ UNCHANGED <<constVars, atlasDims, vertexBuffer, textureDims, fonts, op,
                 transform, region, newDims, retries, ret, frame, history>>

\* `Ok(_) => break`
MatchOk ==
  /\ pc = "match"
  /\ LoopBreaks(brush_action)
  /\ pc' = "unwrap"
  /\ UNCHANGED <<constVars, pipelineVars, engineVars, op, transform, region,
                 brush_action, newDims, retries, calls, ret, frame, history>>

\* A variant of MatchTextureTooSmall that computes the new size and leaves out
\* the call of pipeline.increase_cache_size.
MatchTextureTooSmallNoGrow ==
  /\ pc = "match"
  /\ ~LoopBreaks(brush_action)
  /\ brush_action.kind = "TextureTooSmall"
  /\ newDims' = ResizeTarget(brush_action.suggested, maxTextureSize,
                             textureDims)
  /\ retries' = retries + 1
  /\ pc' = "resize"
  /\ UNCHANGED <<constVars, pipelineVars, engineVars, op, transform, region,
                 brush_action, calls, ret, frame, history>>

\* A variant of MatchTextureTooSmall that grows the pipeline's atlas to the
\* suggested dimensions instead of (new_width, new_height).
MatchTextureTooSmallGrowToSuggested ==
  /\ pc = "match"
  /\ ~LoopBreaks(brush_action)
  /\ brush_action.kind = "TextureTooSmall"
  /\ LET suggested == brush_action.suggested
         grown == PipelineIncreaseCacheSize(suggested[1], suggested[2])
     IN /\ newDims' = ResizeTarget(suggested, maxTextureSize, textureDims)
        /\ atlasDims' = grown.dims
        /\ atlasTexels' = grown.texels
        /\ calls' = Append(calls,
                           [Call("grow_atlas") EXCEPT !.dims = suggested])
  /\ retries' = retries + 1
  /\ pc' = "resize"
  /\ UNCHANGED <<constVars, vertexBuffer, engineVars, op, transform, region,
                 brush_action, ret, frame, history>>

\* `Err(BrushError::TextureTooSmall { suggested }) => { ... }` up to and
\* including pipeline.increase_cache_size(context, new_width, new_height)
MatchTextureTooSmall ==
  /\ pc = "match"
  /\ ~LoopBreaks(brush_action)
  /\ brush_action.kind = "TextureTooSmall"
  /\ LET max_image_size == maxTextureSize
         target == ResizeTarget(brush_action.suggested, max_image_size,
                                textureDims)
         grown == PipelineIncreaseCacheSize(target[1], target[2])
     IN /\ newDims' = target
        /\ atlasDims' = grown.dims
        /\ atlasTexels' = grown.texels
        /\ calls' = Append(calls, [Call("grow_atlas") EXCEPT !.dims = target])
  /\ retries' = retries + 1
  /\ pc' = "resize"
  /\ UNCHANGED <<constVars, vertexBuffer, engineVars, op, transform, region,
                 brush_action, ret, frame, history>>

\* A variant of ResizeTexture that resizes the engine to the dimensions it
\* suggested instead of the clamped (new_width, new_height).
ResizeTextureToSuggested ==
  /\ pc = "resize"
  /\ textureDims' = brush_action.suggested
  /\ lastDraw' = [valid |-> FALSE, secs |-> {}]
  /\ cachedGlyphs' = <<>>
  /\ calls' = Append(calls, [Call("resize_texture") EXCEPT
                               !.dims = brush_action.suggested])
  /\ pc' = "process"
  /\ UNCHANGED <<constVars, pipelineVars, sectionBuffer, keepInCache, fonts,
                 op, transform, region, brush_action, newDims, retries, ret,
                 frame, history>>

\* `glyph_brush.resize_texture(new_width, new_height)`, then the loop repeats
ResizeTexture ==
  /\ pc = "resize"
  /\ textureDims' = newDims
  /\ lastDraw' = [valid |-> FALSE, secs |-> {}]
  /\ cachedGlyphs' = <<>>
  /\ calls' = Append(calls, [Call("resize_texture") EXCEPT !.dims = newDims])
  /\ pc' = "process"
  /\ UNCHANGED <<constVars, pipelineVars, sectionBuffer, keepInCache, fonts,
                 op, transform, region, brush_action, newDims, retries, ret,
                 frame, history>>

\* `match brush_action.unwrap() { Draw(verts) => pipeline.upload(..), ReDraw => {} }`
Unwrap ==
  /\ pc = "unwrap"
  /\ IF brush_action.kind \notin {"Draw", "ReDraw"}
     THEN /\ pc' = "panicked"
          /\ UNCHANGED <<vertexBuffer, calls>>
     ELSE /\ pc' = "draw"
          /\ IF UnwrapUploads(brush_action)
             THEN /\ vertexBuffer' = PipelineUpload(brush_action.verts)
                  /\ calls' = Append(calls, [Call("upload_vertices") EXCEPT
                                               !.verts = brush_action.verts])
             ELSE UNCHANGED <<vertexBuffer, calls>>
  /\ UNCHANGED <<constVars, atlasDims, atlasTexels, engineVars, op, transform,
                 region, brush_action, newDims, retries, ret, frame, history>>

\* A variant of PipelineDraw that reports a draw in which the atlas was too
\* small as an error.
PipelineDrawSurfacingResize ==
  /\ pc = "draw"
  /\ op = "draw_queued_with_transform"
  /\ calls' = Append(calls, [Call("draw") EXCEPT !.transform = transform,
                                                 !.scissor = NoScissor])
  /\ ret' = IF retries > 0 THEN "Err" ELSE "Ok"
  /\ pc' = "return"
  /\ UNCHANGED <<constVars, pipelineVars, engineVars, op, transform, region,
                 brush_action, newDims, retries, frame, history>>

\* draw_queued_with_transform: pipeline.draw(context, transform, None),
\* then the value Ok(())
PipelineDraw ==
  /\ pc = "draw"
  /\ op = "draw_queued_with_transform"
  /\ calls' = Append(calls, [Call("draw") EXCEPT !.transform = transform,
                                                 !.scissor = NoScissor])
  /\ ret' = "Ok"
  /\ pc' = "return"
  /\ UNCHANGED <<constVars, pipelineVars, engineVars, op, transform, region,
                 brush_action, newDims, retries, frame, history>>

\* draw_queued_with_transform_and_scissoring:
\* pipeline.draw(context, transform, Some(region)), then the value Ok(())
PipelineDrawScissored ==
  /\ pc = "draw"
  /\ op = "draw_queued_with_transform_and_scissoring"
  /\ calls' = Append(calls, [Call("draw") EXCEPT !.transform = transform,
                                                 !.scissor = region])
  /\ ret' = "Ok"
  /\ pc' = "return"
  /\ UNCHANGED <<constVars, pipelineVars, engineVars, op, transform, region,
                 brush_action, newDims, retries, frame, history>>

\* The draw operation returns to its caller.
Return ==
  /\ pc = "return"
  /\ pc' = "idle"
  /\ UNCHANGED ret
  /\ history' = [last |-> "draw", drew |-> frame.secs]
  /\ op' = "none"
  /\ transform' = IdentityTransform
  /\ region' = NoScissor
  /\ brush_action' = NoAction
  /\ newDims' = <<0, 0>>
  /\ retries' = 0
  /\ calls' = <<>>
  /\ frame' = NoFrame
  /\ UNCHANGED <<constVars, pipelineVars, engineVars>>

Next ==
  \/ Queue
  \/ QueueCustomLayout
  \/ QueuePrePositioned
  \/ KeepCachedCustomLayout
  \/ KeepCached
  \/ Fonts
  \/ AddFont
  \/ DrawQueued
  \/ DrawQueuedWithTransform
  \/ DrawQueuedWithTransformAndScissoring
  \/ ProcessQueued
  \/ MatchOk
  \/ MatchTextureTooSmall
  \/ ResizeTexture
  \/ Unwrap
  \/ PipelineDraw
  \/ PipelineDrawScissored
  \/ Return

Spec == Init /\ [][Next]_vars

\* ==================================================================== claims
Last(s) == s[Len(s)]

CallsOf(name) == {i \in DOMAIN calls : calls[i].op = name}

MaxPair == <<maxTextureSize, maxTextureSize>>

\* The clamp condition as the specification words it.
ClampCondition(suggested, max, current) ==
  /\ suggested[1] > max \/ suggested[2] > max
  /\ current[1] < max \/ current[2] < max

\* C1: the pipeline's atlas texture dimensions equal the engine's
\* texture_dimensions() right after construction and when a draw operation
\* returns, whatever number of TextureTooSmall retries happened in it.
C1_AtlasSync ==
  pc \in {"idle", "return"} => atlasDims = textureDims

\* A draw operation is about to return after two resizes.
C1_Witness ==
  /\ pc = "return"
  /\ retries >= 2
  /\ atlasDims = textureDims
  /\ atlasDims # frame.dims

\* C2: on TextureTooSmall(suggested), when suggested exceeds the maximum
\* texture size on an axis and the current atlas is below it on an axis, the
\* dimensions handed to grow_atlas (increase_cache_size) and then to
\* resize_texture are (max, max), in both arms.
C2_ClampToMax ==
  /\ (pc = "resize"
      /\ ClampCondition(brush_action.suggested, maxTextureSize, textureDims))
     => /\ Last(calls).op = "grow_atlas"
        /\ Last(calls).dims = MaxPair
        /\ atlasDims = MaxPair
        /\ newDims = MaxPair
  /\ (pc = "process" /\ calls # <<>> /\ Last(calls).op = "resize_texture"
      /\ ClampCondition(brush_action.suggested, maxTextureSize,
                        IF CallsOf("resize_texture") = {Len(calls)}
                        THEN frame.dims
                        ELSE calls[Len(calls) - 3].dims))
     => /\ Last(calls).dims = MaxPair
        /\ textureDims = MaxPair

\* The example of the specification, scaled: suggested exceeds the maximum on
\* both axes, the atlas is below it on both, and the target is (max, max).
C2_Witness ==
  /\ pc = "resize"
  /\ brush_action.suggested[1] > maxTextureSize
  /\ brush_action.suggested[2] > maxTextureSize
  /\ textureDims[1] < maxTextureSize
  /\ textureDims[2] < maxTextureSize
  /\ newDims = MaxPair
  /\ atlasDims = MaxPair

\* C3: on TextureTooSmall(suggested), when the clamp condition does not hold
\* the dimensions handed to grow_atlas and resize_texture are `suggested`.
C3_NoClamp ==
  /\ (pc = "resize"
      /\ ~ClampCondition(brush_action.suggested, maxTextureSize, textureDims))
     => /\ Last(calls).op = "grow_atlas"
        /\ Last(calls).dims = brush_action.suggested
        /\ atlasDims = brush_action.suggested
        /\ newDims = brush_action.suggested
  /\ (pc = "process" /\ calls # <<>> /\ Last(calls).op = "resize_texture"
      /\ ~ClampCondition(brush_action.suggested, maxTextureSize,
                         IF CallsOf("resize_texture") = {Len(calls)}
                         THEN frame.dims
                         ELSE calls[Len(calls) - 3].dims))
     => /\ Last(calls).dims = brush_action.suggested
        /\ textureDims = brush_action.suggested

\* The atlas is at the maximum on both axes, the suggestion exceeds it on
\* both, and the target is the suggestion.
C3_Witness ==
  /\ pc = "resize"
  /\ textureDims = MaxPair
  /\ brush_action.suggested[1] > maxTextureSize
  /\ brush_action.suggested[2] > maxTextureSize
  /\ newDims = brush_action.suggested
  /\ atlasDims = brush_action.suggested


\* What the sections queued when the running draw began need of the atlas.
FrameFits(dims) == QueueFits(frame.secs, dims)

InLoop == pc \in {"process", "match", "resize"}

LoopLeft == pc \in {"unwrap", "draw", "return"}

\* Inside the loop the next step exists: the engine returns a result (when
\* the glyphs do not fit it has dimensions to suggest), and the result is
\* matched by one of the two arms of the match.
LoopCanStep ==
  /\ pc = "process"
     => \/ EngineReDraws
        \/ Fits(RowAdded, textureDims)
        \/ Fits(RowReordered, textureDims)
        \/ Suggestions(textureDims) # {}
  /\ pc = "match"
     => brush_action.kind \in {"Draw", "ReDraw", "TextureTooSmall"}

\* The longest chain of growing dimensions the model represents.
RetryBound == 2 * (MaxDim - 1)

\* C4: when the queued glyphs need an atlas larger than the one the draw
\* operation starts with, but no larger than the maximum texture size on
\* either axis, the retry loop cannot stop before it succeeds, and once it is
\* left the draw operation has issued at least one grow_atlas call, holds a
\* Draw action, and its atlas (and the engine's texture) holds all queued
\* glyphs.
C4_ResizeConvergence ==
  (~FrameFits(frame.dims) /\ FrameFits(MaxPair))
  => /\ InLoop => LoopCanStep
     /\ LoopLeft => /\ CallsOf("grow_atlas") # {}
                    /\ brush_action.kind = "Draw"
                    /\ FrameFits(atlasDims)
                    /\ FrameFits(textureDims)

\* A draw operation that started with too small an atlas returns after growing
\* it, without exceeding the maximum.
C4_Witness ==
  /\ pc = "return"
  /\ ~FrameFits(frame.dims)
  /\ FrameFits(MaxPair)
  /\ CallsOf("grow_atlas") # {}
  /\ brush_action.kind = "Draw"
  /\ FrameFits(atlasDims)
  /\ atlasDims[1] <= maxTextureSize
  /\ atlasDims[2] <= maxTextureSize

\* C5: the resize-retry loop of a draw operation is left after a bounded
\* number of TextureTooSmall retries, for an engine that suggests larger
\* dimensions until the glyphs fit: inside the loop a next step always exists,
\* the number of retries never exceeds the bound, and the loop is left exactly
\* with a successful processing result.
C5_LoopTerminates ==
  /\ retries <= RetryBound
  /\ InLoop => LoopCanStep
  /\ LoopLeft => brush_action.kind \in {"Draw", "ReDraw"}
  /\ (pc = "resize") => /\ brush_action.kind = "TextureTooSmall"
                        /\ newDims # textureDims

\* The loop is left after the clamp took the atlas to (max, max) and a
\* further retry.
C5_Witness ==
  /\ pc = "unwrap"
  /\ retries >= 2
  /\ \E i \in CallsOf("grow_atlas") :
       /\ calls[i].dims = MaxPair
       /\ calls[i - 1].dims # MaxPair


\* C6: an atlas-too-small condition is not surfaced: a draw operation that
\* returns, returns Ok(()), whatever number of TextureTooSmall results it saw;
\* no draw operation returns an Err value.
C6_DrawReturnsOk ==
  /\ ret \in {"none", "Ok"}
  /\ pc = "return" => ret = "Ok"
  /\ (pc = "idle" /\ history.last = "draw") => ret = "Ok"

\* A draw operation returns Ok after TextureTooSmall results.
C6_Witness ==
  /\ pc = "return"
  /\ retries >= 2
  /\ ret = "Ok"

\* C7: the Core arm is the active one if and only if the context reported a
\* major version of at least 3, the Compatibility arm otherwise, after
\* construction and after any sequence of queue, keep_cached, add_font and
\* draw operations.
C7_CapabilitySelection ==
  /\ variant \in {"Core", "Compatibility"}
  /\ variant = "Core" <=> glMajor >= 3

\* A version-2 context still runs the Compatibility arm after fonts were
\* added, a draw returned and sections were queued and kept again.
C7_Witness ==
  /\ glMajor = 2
  /\ variant = "Compatibility"
  /\ fonts > 1
  /\ ret = "Ok"
  /\ pc = "idle"
  /\ sectionBuffer # {}
  /\ keepInCache # {}

OnlyProcessAndDraw ==
  /\ CallsOf("patch_atlas") = {}
  /\ CallsOf("grow_atlas") = {}
  /\ CallsOf("upload_vertices") = {}

C9_AtlasOnlyGrows ==
  pc = "resize"
  => /\ Last(calls).op = "grow_atlas"
     /\ Last(calls).dims[1] >= textureDims[1]
     /\ Last(calls).dims[2] >= textureDims[2]
     /\ atlasDims[1] >= textureDims[1]
     /\ atlasDims[2] >= textureDims[2]

\* C10: a draw operation issues exactly one pipeline draw call, as its last
\* call, after process_queued has run to a successful result: every
\* patch_atlas, grow_atlas and upload_vertices call precedes it; an
\* upload_vertices call follows the Draw result at once, hence all patch_atlas
\* calls of that attempt.
C10_DrawOrdering ==
  /\ Cardinality(CallsOf("draw")) <= 1
  /\ pc = "return" <=> CallsOf("draw") # {}
  /\ \A d \in CallsOf("draw") :
       /\ d = Len(calls)
       /\ \E j \in 1..(d - 1) :
            /\ calls[j].op = "process_queued"
            /\ calls[j].result \in {"Draw", "ReDraw"}
       /\ \A i \in CallsOf("patch_atlas") \cup CallsOf("grow_atlas")
                   \cup CallsOf("upload_vertices") : i < d
  /\ \A u \in CallsOf("upload_vertices") :
       /\ u > 1
       /\ calls[u - 1].op = "process_queued"
       /\ calls[u - 1].result = "Draw"
       /\ \A p \in CallsOf("patch_atlas") : p < u

\* A draw operation returns after patches, a resize and an upload, the
\* pipeline draw call last.
C10_Witness ==
  /\ pc = "return"
  /\ CallsOf("patch_atlas") # {}
  /\ CallsOf("grow_atlas") # {}
  /\ CallsOf("upload_vertices") # {}
  /\ Last(calls).op = "draw"


Max(S) == CHOOSE x \in S : \A y \in S : x >= y

\* The dimensions of the pipeline's atlas texture when the i-th call of the
\* running draw operation was made: those of the latest grow_atlas call
\* before it, or those at the start of the operation.
GrowsBefore(i) == {j \in CallsOf("grow_atlas") : j < i}

AtlasDimsAt(i) ==
  IF GrowsBefore(i) = {} THEN frame.dims
  ELSE calls[Max(GrowsBefore(i))].dims

PatchWithin(patch, dims) ==
  /\ patch.offset[1] + patch.size[1] <= dims[1]
  /\ patch.offset[2] + patch.size[2] <= dims[2]

\* Rectangle coordinates on both sides of the 16-bit limit, and the
\* rectangles an engine can hand over with them.
WideCoords == {0, 1, U16Mod - 1, U16Mod, U16Mod + 1}

WideRects ==
  {[min |-> <<x0, y0>>, max |-> <<x1, y1>>] :
     x0 \in WideCoords, y0 \in WideCoords,
     x1 \in WideCoords, y1 \in WideCoords}

\* Both closures keep a rectangle inside every atlas that contains it, also
\* when the casts to u16 change its coordinates.
U16PatchesWithin ==
  \A rect \in WideRects :
    (rect.min[1] < rect.max[1] /\ rect.min[2] < rect.max[2])
    => /\ PatchWithin(CompatibilityUpdateCache(rect, 0), rect.max)
       /\ PatchWithin(CoreUpdateCache(rect, 0), rect.max)

\* C11: every patch_atlas(offset, size, data) call of a draw operation has
\* offset + size within the dimensions the atlas texture has when the call is
\* made, on both axes, also for the patches of a retry after a resize and for
\* engine rectangles whose coordinates the casts to u16 change.
C11_PatchWithinAtlas ==
  /\ \A i \in CallsOf("patch_atlas") : PatchWithin(calls[i], AtlasDimsAt(i))
  /\ pc \in {"process", "match"} => AtlasDimsAt(Len(calls) + 1) = atlasDims
  /\ U16PatchesWithin

\* A draw operation returns after it patched the atlas at a nonzero offset in
\* a retry that followed a resize.
C11_Witness ==
  /\ pc = "return"
  /\ \E i \in CallsOf("patch_atlas") :
       /\ GrowsBefore(i) # {}
       /\ calls[i].offset[1] > 0
       /\ calls[i].offset[1] + calls[i].size[1] = atlasDims[1]


\* What a draw operation does when it is entered, whichever it is.
SameEntry ==
  /\ pc = "idle"
  /\ pc' = "process"
  /\ brush_action' = NoAction
  /\ newDims' = <<0, 0>>
  /\ retries' = 0
  /\ calls' = <<>>
  /\ frame' = [secs |-> sectionBuffer, keep |-> keepInCache,
               dims |-> textureDims]
  /\ UNCHANGED <<constVars, pipelineVars, engineVars, history>>

\* The pipeline draw call of the running draw operation.
DrawCallOf(scissor) ==
  [Call("draw") EXCEPT !.transform = transform, !.scissor = scissor]

C12_Step ==
  /\ DrawQueued <=> DrawQueuedWithTransform
  /\ DrawQueued
     => \E w \in TargetWidths, h \in TargetHeights :
          transform' = OrthographicProjection(w, h)
  /\ (DrawQueuedWithTransform \/ DrawQueuedWithTransformAndScissoring)
     => SameEntry
  /\ DrawQueuedWithTransformAndScissoring => region' \in Regions
  /\ pc \in {"process", "match", "resize", "unwrap", "draw"}
     => UNCHANGED <<op, transform, region>>
  /\ (pc = "draw" /\ op = "draw_queued_with_transform")
     => /\ calls' = Append(calls, DrawCallOf(NoScissor))
        /\ UNCHANGED <<pipelineVars, engineVars>>
  /\ (pc = "draw" /\ op = "draw_queued_with_transform_and_scissoring")
     => /\ calls' = Append(calls, DrawCallOf(region))
        /\ UNCHANGED <<pipelineVars, engineVars>>

\* C12: a draw_queued(context, width, height) step is a
\* draw_queued_with_transform(context, orthographic_projection(width, height))
\* step and the other way round; all three draw operations enter the same
\* atlas synchronisation from the same state, which never looks at the
\* transform or the region; draw_queued_with_transform ends with the pipeline
\* draw call without scissor, the scissoring operation with the same call
\* with its region as scissor.
C12_DrawVariants == [][C12_Step]_vars

\* A scissoring draw returns after a resize with its region in the pipeline
\* draw call.
C12_Witness ==
  /\ pc = "return"
  /\ op = "draw_queued_with_transform_and_scissoring"
  /\ CallsOf("grow_atlas") # {}
  /\ Last(calls) = DrawCallOf(region)
  /\ region \in Regions
  /\ transform = OrthographicProjection(2, 1)


\* The processing results of the running draw operation that were
\* TextureTooSmall.
TooSmallResults ==
  {i \in CallsOf("process_queued") : calls[i].result = "TextureTooSmall"}

\* C13: in the calls of a draw operation every TextureTooSmall result is
\* followed at once by grow_atlas(new_dims), that by resize_texture with the
\* same new_dims, and that by the next processing attempt (its patches and
\* its result), with no patch_atlas or upload_vertices call in between; no
\* grow_atlas or resize_texture call occurs anywhere else.
C13_ResizeProtocol ==
  /\ \A i \in TooSmallResults :
       /\ i + 1 <= Len(calls) => calls[i + 1].op = "grow_atlas"
       /\ i + 2 <= Len(calls)
          => /\ calls[i + 2].op = "resize_texture"
             /\ calls[i + 2].dims = calls[i + 1].dims
       /\ i + 3 <= Len(calls)
          => calls[i + 3].op \in {"patch_atlas", "process_queued"}
  /\ \A g \in CallsOf("grow_atlas") : g - 1 \in TooSmallResults
  /\ \A s \in CallsOf("resize_texture") : s - 1 \in CallsOf("grow_atlas")
  /\ pc = "resize" <=> (calls # <<>> /\ Last(calls).op = "grow_atlas")
  /\ (pc = "match" /\ brush_action.kind = "TextureTooSmall")
     => Len(calls) \in TooSmallResults
  /\ (calls # <<>> /\ Last(calls).op = "resize_texture")
     => /\ pc = "process"
        /\ textureDims = Last(calls).dims
        /\ atlasDims = Last(calls).dims

\* The engine was resized to the clamped dimensions the pipeline had just
\* been grown to, and the next attempt is due.
C13_Witness ==
  /\ pc = "process"
  /\ retries >= 2
  /\ Last(calls).op = "resize_texture"
  /\ calls[Len(calls) - 1].op = "grow_atlas"
  /\ calls[Len(calls) - 1].dims = Last(calls).dims
  /\ calls[Len(calls) - 2].dims # Last(calls).dims


UploadCall(verts) == [Call("upload_vertices") EXCEPT !.verts = verts]

\* The uploads made so far in a draw operation, by its position.
C14_State ==
  /\ pc \in {"idle", "process", "match", "resize", "unwrap"}
     => CallsOf("upload_vertices") = {}
  /\ (pc \in {"draw", "return"} /\ brush_action.kind = "Draw")
     => /\ Cardinality(CallsOf("upload_vertices")) = 1
        /\ \A u \in CallsOf("upload_vertices") :
             calls[u] = UploadCall(brush_action.verts)
        /\ vertexBuffer = brush_action.verts
  /\ (pc \in {"draw", "return"} /\ brush_action.kind = "ReDraw")
     => CallsOf("upload_vertices") = {}
  /\ pc \in {"draw", "return"} => brush_action.kind \in {"Draw", "ReDraw"}

\* Which steps upload, and what.
C14_Step ==
  /\ (pc = "unwrap" /\ brush_action.kind = "Draw")
     => /\ calls' = Append(calls, UploadCall(brush_action.verts))
        /\ vertexBuffer' = brush_action.verts
  /\ (pc = "unwrap" /\ brush_action.kind = "ReDraw")
     => UNCHANGED <<calls, vertexBuffer>>
  /\ pc # "unwrap" => UNCHANGED vertexBuffer
  /\ (pc = "match" /\ brush_action.kind = "TextureTooSmall")
     => (pc' = "resize" /\ Last(calls').op = "grow_atlas")

\* C14: a draw operation calls upload_vertices exactly once, with the
\* vertices of the action, when its successful processing result is
\* Draw(vertices), and not at all when it is ReDraw, and then the uploaded
\* vertex batch stays as it was; no other step of the operation, in
\* particular none after a TextureTooSmall result, uploads or changes the
\* batch.
C14_VertexUpload == [](C14_State) /\ [][C14_Step]_vars

\* A draw returns after a ReDraw with the vertex batch of the draw before
\* it, which had uploaded the vertices of one glyph.
C14_Witness ==
  /\ pc = "return"
  /\ brush_action.kind = "ReDraw"
  /\ vertexBuffer # {}
  /\ CallsOf("upload_vertices") = {}


\* ------------------------------------------- the update closure on its own
\* The engine invokes the update_texture closure with (rect, tex_data), and
\* the closure calls pipeline.update_cache; both are recorded, for rectangles
\* with coordinates on both sides of the 16-bit limit.
UpdateTextureCallback ==
  /\ calls = <<>>
  /\ \E rect \in WideRects, tex_data \in Sections :
       /\ rect.min[1] < rect.max[1]
       /\ rect.min[2] < rect.max[2]
       /\ LET a == UpdateCache(rect, tex_data)
          IN calls' =
               << [Call("update_texture") EXCEPT
                     !.offset = rect.min,
                     !.size = <<RectWidth(rect), RectHeight(rect)>>,
                     !.data = tex_data],
                  [Call("patch_atlas") EXCEPT
                     !.offset = a.offset, !.size = a.size, !.data = a.data] >>
  /\ UNCHANGED <<constVars, pipelineVars, engineVars, pc, op, transform,
                 region, brush_action, newDims, retries, ret, frame, history>>

ClosureNext == UpdateTextureCallback

ClosureSpec == Init /\ [][ClosureNext]_vars

\* The counts of C15, in the calls of a draw operation: as many grow_atlas
\* calls as TextureTooSmall results (the latest one is still to be answered
\* while its match runs), none when the first attempt succeeds, and one
\* patch_atlas call per glyph the engine newly put into its cache.
CallCounts ==
  /\ Cardinality(CallsOf("grow_atlas")) = retries
  /\ Cardinality(TooSmallResults) =
       IF pc = "match" /\ brush_action.kind = "TextureTooSmall"
       THEN retries + 1 ELSE retries
  /\ (pc \in {"unwrap", "draw", "return"} /\ retries = 0)
     => /\ CallsOf("grow_atlas") = {}
        /\ Cardinality(CallsOf("process_queued")) = 1
  /\ (pc = "match" /\ brush_action.kind = "Draw" /\ retries > 0)
     => LET first == Max(CallsOf("resize_texture")) + 1
            n == Len(calls) - first
        IN /\ n = Len(cachedGlyphs)
           /\ \A k \in 1..n :
                LET rect == GlyphRect(cachedGlyphs, k)
                    call == calls[first + k - 1]
                IN /\ call.op = "patch_atlas"
                   /\ call.offset = rect.min
                   /\ call.size = <<RectWidth(rect), RectHeight(rect)>>
                   /\ call.data = cachedGlyphs[k]

\* C15 as stated, for the closure: the patch_atlas call that an atlas-patch
\* callback causes carries the callback's rectangle offset, its size and its
\* pixel data.
C15_PatchCarriesRect ==
  \A i \in CallsOf("patch_atlas") :
    (i > 1 /\ calls[i - 1].op = "update_texture")
    => /\ calls[i].offset = calls[i - 1].offset
       /\ calls[i].size = calls[i - 1].size
       /\ calls[i].data = calls[i - 1].data


\* The vertex the other arm's closure makes of the glyph a vertex was made
\* of.
OtherArmVertex(v) ==
  IF variant = "Compatibility"
  THEN CoreToVertex([glyph |-> v.glyph, tex |-> v.tex])
  ELSE CompatibilityToVertex([glyph |-> v.glyph, tex |-> v.tex])

\* Both update closures make the same call of rectangles with coordinates on
\* both sides of the 16-bit limit.
SameUpdateCacheOnWideRects ==
  \A rect \in WideRects :
    CompatibilityUpdateCache(rect, 0) = CoreUpdateCache(rect, 0)

\* C16: wherever a draw operation stands, the arm that is not active would
\* pass the same arguments to the pipeline as the active one: the same
\* (new_width, new_height) for the result at hand, the same offset, size and
\* data for every rectangle of the engine, and vertices of the same glyphs at
\* the same texture positions, in the other vertex representation.
C16_BackendEquivalence ==
  /\ (pc = "match" /\ brush_action.kind = "TextureTooSmall")
     => CompatibilityResizeTarget(brush_action.suggested, maxTextureSize,
                                  textureDims)
        = CoreResizeTarget(brush_action.suggested, maxTextureSize,
                           textureDims)
  /\ pc = "resize"
     => /\ newDims = CompatibilityResizeTarget(brush_action.suggested,
                                               maxTextureSize, textureDims)
        /\ newDims = CoreResizeTarget(brush_action.suggested, maxTextureSize,
                                      textureDims)
        /\ Last(calls).dims = newDims
  /\ \A k \in DOMAIN cachedGlyphs :
       CompatibilityUpdateCache(GlyphRect(cachedGlyphs, k), cachedGlyphs[k])
       = CoreUpdateCache(GlyphRect(cachedGlyphs, k), cachedGlyphs[k])
  /\ SameUpdateCacheOnWideRects
  /\ \A u \in CallsOf("upload_vertices") : \A v \in calls[u].verts :
       /\ v.fmt = IF variant = "Compatibility" THEN "Vertex4" ELSE "Instance"
       /\ OtherArmVertex(v).fmt # v.fmt
       /\ OtherArmVertex(v).glyph = v.glyph
       /\ OtherArmVertex(v).tex = v.tex

\* A draw operation of the Core arm returns after a clamped resize, patches
\* at two offsets and an upload of two instances.
C16_Witness ==
  /\ pc = "return"
  /\ variant = "Core"
  /\ \E g \in CallsOf("grow_atlas") :
       calls[g].dims = MaxPair /\ calls[g - 1].dims # MaxPair
  /\ \E p \in CallsOf("patch_atlas") : calls[p].offset[1] > 0
  /\ \E u \in CallsOf("upload_vertices") : Cardinality(calls[u].verts) = 2


\* A step of one of the operations on the queue and the fonts.
QueueOperation ==
  \/ Queue
  \/ QueueCustomLayout
  \/ QueuePrePositioned
  \/ KeepCachedCustomLayout
  \/ KeepCached
  \/ Fonts
  \/ AddFont

\* C17: queue, queue_custom_layout, queue_pre_positioned, keep_cached,
\* keep_cached_custom_layout, fonts and add_font issue no pipeline operation:
\* none of them changes the atlas texture's dimensions or contents or the
\* uploaded vertex batch, and no call is recorded outside a draw operation.
C17_OnlyDrawsTouchGpu ==
  /\ [](pc = "idle" => calls = <<>>)
  /\ [][QueueOperation
        => UNCHANGED <<atlasDims, atlasTexels, vertexBuffer, calls>>]_vars
  /\ [][(pc = "idle" /\ pc' = "idle") => UNCHANGED pipelineVars]_vars

\* Sections were queued and kept and a font was added after a draw that had
\* filled the atlas and the vertex batch.
C17_Witness ==
  /\ pc = "idle"
  /\ history.last = "queued"
  /\ atlasTexels # {}
  /\ vertexBuffer # {}
  /\ sectionBuffer # {}
  /\ keepInCache # {}
  /\ fonts > 1


WithinMax(dims) == dims[1] <= maxTextureSize /\ dims[2] <= maxTextureSize

\* C18 as stated: in a draw operation that starts with the atlas within
\* get_max_texture_size() on both axes (as every draw operation of a renderer
\* does whose initial atlas is within it, if the claim holds), every
\* dimension pair passed to grow_atlas and to resize_texture is within it on
\* both axes.
C18_HardwareLimit ==
  WithinMax(frame.dims)
  => \A i \in CallsOf("grow_atlas") \cup CallsOf("resize_texture") :
       WithinMax(calls[i].dims)

\* The atlas has no axis below the maximum left.
NoRoomBelowMax(dims) ==
  dims[1] >= maxTextureSize /\ dims[2] >= maxTextureSize

\* C18 as amended: a dimension pair passed to grow_atlas, and then to
\* resize_texture, is within get_max_texture_size() on both axes whenever the
\* atlas was below the maximum on an axis before it; once the atlas has
\* reached the maximum on both axes, the suggestion is passed as it is, and
\* from (max, max) it exceeds the maximum on an axis.
C18_HardwareLimitWhileBelow ==
  \A g \in CallsOf("grow_atlas") :
    /\ ~NoRoomBelowMax(AtlasDimsAt(g)) => WithinMax(calls[g].dims)
    /\ NoRoomBelowMax(AtlasDimsAt(g)) => calls[g].dims = calls[g - 1].dims
    /\ AtlasDimsAt(g) = MaxPair => ~WithinMax(calls[g].dims)
    /\ g + 1 <= Len(calls) => calls[g + 1].dims = calls[g].dims

\* A draw operation that began within the maximum returns after one resize
\* that clamped to (max, max) and a later one that went beyond it.
C18_Witness ==
  /\ pc = "return"
  /\ WithinMax(frame.dims)
  /\ \E g \in CallsOf("grow_atlas") :
       /\ ~NoRoomBelowMax(AtlasDimsAt(g))
       /\ calls[g].dims = MaxPair
       /\ calls[g - 1].dims # MaxPair
  /\ \E g \in CallsOf("grow_atlas") :
       /\ AtlasDimsAt(g) = MaxPair
       /\ ~WithinMax(calls[g].dims)

\* C19: the result that `brush_action.unwrap()` unwraps after the loop is
\* Draw or ReDraw, never the TextureTooSmall error, so the unwrap does not
\* panic, in either arm and after any number of retries.
C19_UnwrapNeverPanics ==
  /\ pc # "panicked"
  /\ pc = "unwrap" => brush_action.kind \in {"Draw", "ReDraw"}
  /\ pc = "unwrap"
     => /\ Last(calls).op = "process_queued"
        /\ Last(calls).result = brush_action.kind

\* The Compatibility arm is at its unwrap with a Draw result after two
\* TextureTooSmall results.
C19_Witness ==
  /\ pc = "unwrap"
  /\ variant = "Compatibility"
  /\ retries >= 2
  /\ Cardinality(TooSmallResults) = retries
  /\ brush_action.kind = "Draw"

=============================================================================
